---- MODULE Spec2Model ----
(***************************************************************************)
(* Model of src/client.rs of libsql-client: the DatabaseClient trait with  *)
(* its provided methods execute and transaction over the required method   *)
(* batch, the request/response codec (statements_to_string and             *)
(* json_to_query_result) and the generic constructors new_client and       *)
(* new_client_with_config.                                                 *)
(*                                                                         *)
(* A caller runs one operation at a time.  execute and transaction are     *)
(* async: they issue a batch call to the backend and suspend at `.await`   *)
(* (pc = "await") until the backend's future completes (BatchCompletes).   *)
(* The other operations are synchronous and are one step each.             *)
(***************************************************************************)
EXTENDS Integers, Sequences, FiniteSets, TLC

VARIABLES
    features,   \* the cargo features (backends) compiled into the build
    pc,         \* "idle" | "await" (suspended at batch(..).await) | "done"
    op,         \* the operation called last
    arg,        \* its argument
    calls,      \* the calls it made to its collaborator so far, in order
    reply,      \* what the collaborator answered last
    ret         \* what the operation returned

vars == <<features, pc, op, arg, calls, reply, ret>>

----------------------------------------------------------------------------
(* Bounds of the model *)

\* longest statement list a caller passes
MaxStmts == 2
\* longest result list a backend's batch returns
MaxResults == 5
\* longest response array handed to json_to_query_result
MaxArray == 3
\* largest stmts_count handed to json_to_query_result
MaxCount == 3

----------------------------------------------------------------------------
(* Values *)

\* sequences over S of length 0..n
SeqsUpTo(S, n) == UNION {[1..k -> S] : k \in 0..n}

None == [tag |-> "None", val |-> <<>>]
Ok(v) == [tag |-> "Ok", val |-> v]
Err(e) == [tag |-> "Err", val |-> e]
\* an unwinding panic: the call returns no value at all
Panic(m) == [tag |-> "Panic", val |-> m]

\* Statement::new("BEGIN"), Statement::new("END")
BEGIN == "BEGIN"
END == "END"

\* statements a caller passes; nothing stops a caller from passing BEGIN
Statements == {"SELECT 1", "INSERT", "BEGIN"}
StmtLists == SeqsUpTo(Statements, MaxStmts)

\* QueryResult values (opaque)
QueryResults == {"r1", "r2"}

\* errors of a backend's batch (opaque)
BatchErrors == {"transport error", "sql error"}

\* everything a backend's batch can return: the trait only fixes the type
\* Result<Vec<QueryResult>>, not the length of the vector
BatchReplies ==
    {Ok(rs) : rs \in SeqsUpTo(QueryResults, MaxResults)}
        \cup {Err(e) : e \in BatchErrors}

----------------------------------------------------------------------------
(* std helpers, as the standard library defines them *)

\* Iterator::skip(1): drops the first item if there is one
Skip1(s) == IF Len(s) = 0 THEN <<>> ELSE Tail(s)

\* Vec::pop: drops the last item if there is one
Pop(s) == IF Len(s) = 0 THEN <<>> ELSE SubSeq(s, 1, Len(s) - 1)

----------------------------------------------------------------------------
(* DatabaseClient::execute *)

\* the argument of the batch call: std::iter::once(stmt)
execute_request(stmt) == <<stmt>>

\* a faulty variant: retries the batch once when it failed
execute_resume_retry(sent, r) ==
    IF r.tag = "Err" /\ Len(sent) < 2
    THEN [pc |-> "await", calls |-> Append(sent, sent[1]), ret |-> None]
    ELSE [pc |-> "done", calls |-> sent,
          ret |-> IF r.tag = "Err" THEN r
                  ELSE IF Len(r.val) = 0 THEN Panic("removal index out of bounds")
                  ELSE Ok(r.val[1])]

\* a faulty variant: takes the last result instead of the first
execute_resume_last(sent, r) ==
    [pc |-> "done", calls |-> sent,
     ret |-> IF r.tag = "Err" THEN r
             ELSE IF Len(r.val) = 0 THEN Panic("removal index out of bounds")
             ELSE Ok(r.val[Len(r.val)])]

\* the continuation after `.await`: `?` returns the error; results.remove(0)
\* panics on an empty vector and otherwise yields its first element
execute_resume(sent, r) ==
    [pc |-> "done", calls |-> sent,
     ret |-> IF r.tag = "Err" THEN r
             ELSE IF Len(r.val) = 0 THEN Panic("removal index out of bounds")
             ELSE Ok(r.val[1])]

----------------------------------------------------------------------------
(* DatabaseClient::transaction *)

\* a faulty variant: forgets the closing END
transaction_request_noend(stmts) == <<BEGIN>> \o stmts

\* once(BEGIN).chain(stmts).chain(once(END))
transaction_request(stmts) == <<BEGIN>> \o stmts \o <<END>>

\* a faulty variant: rejects a result list that is too short to hold BEGIN and END
transaction_collect_checked(results) ==
    IF Len(results) < 2 THEN Err("missing results") ELSE Ok(Pop(Skip1(results)))

\* .into_iter().skip(1).collect(); ret.pop(); Ok(ret)
transaction_collect(results) == Ok(Pop(Skip1(results)))

\* the continuation after `.await`
transaction_resume(sent, r) ==
    [pc |-> "done", calls |-> sent,
     ret |-> IF r.tag = "Err" THEN r ELSE transaction_collect(r.val)]

----------------------------------------------------------------------------
(* Actions of the trait's provided methods *)

Execute ==
    /\ pc # "await"
    /\ \E stmt \in Statements :
        /\ op' = "execute"
        /\ arg' = stmt
        /\ calls' = <<execute_request(stmt)>>
    /\ pc' = "await"
    /\ reply' = None
    /\ ret' = None
    /\ UNCHANGED features

Transaction ==
    /\ pc # "await"
    /\ \E stmts \in StmtLists :
        /\ op' = "transaction"
        /\ arg' = stmts
        /\ calls' = <<transaction_request(stmts)>>
    /\ pc' = "await"
    /\ reply' = None
    /\ ret' = None
    /\ UNCHANGED features

\* the backend's batch future completes and the suspended method runs on
BatchCompletes ==
    /\ pc = "await"
    /\ \E r \in BatchReplies :
        LET next == IF op = "execute" THEN execute_resume(calls, r)
                    ELSE transaction_resume(calls, r)
        IN  /\ reply' = r
            /\ pc' = next.pc
            /\ calls' = next.calls
            /\ ret' = next.ret
    /\ UNCHANGED <<features, op, arg>>

----------------------------------------------------------------------------
(* statements_to_string *)

\* text is a sequence of characters
Opening == <<"{", "\"", "s", "t", "a", "t", "e", "m", "e", "n", "t", "s", "\"",
             ":", " ", "[">>
Closing == <<"]", "}">>

\* format!("{}", stmt): the Display form of a Statement.  Forms with a
\* comma inside and at the end are included on purpose.
Display(stmt) ==
    CASE stmt = "SELECT 1" -> <<"S", ",", "1">>
      [] stmt = "INSERT"   -> <<"I", ",">>
      [] stmt = "BEGIN"    -> <<"B">>
      [] stmt = "END"      -> <<"E">>

\* the for loop: body += &format!("{},", stmt.into()); stmts_count += 1
RECURSIVE encode_loop(_, _, _)
encode_loop(stmts, body, stmts_count) ==
    IF stmts = <<>>
    THEN [body |-> body, stmts_count |-> stmts_count]
    ELSE encode_loop(Tail(stmts),
                     body \o Display(Head(stmts)) \o <<",">>,
                     stmts_count + 1)

\* a faulty variant: pops the last character whether or not a statement was written
statements_to_string_alwayspop(stmts) ==
    LET l == encode_loop(stmts, Opening, 0)
    IN  [body |-> Pop(l.body) \o Closing, stmts_count |-> l.stmts_count]

\* String::pop has Vec::pop's behaviour on the characters
statements_to_string(stmts) ==
    LET l == encode_loop(stmts, Opening, 0)
        body == IF l.stmts_count > 0 THEN Pop(l.body) ELSE l.body
    IN  [body |-> body \o Closing, stmts_count |-> l.stmts_count]

StatementsToString ==
    /\ pc # "await"
    /\ \E stmts \in StmtLists :
        /\ op' = "statements_to_string"
        /\ arg' = stmts
        /\ ret' = Ok(statements_to_string(stmts))
    /\ pc' = "done"
    /\ calls' = <<>>
    /\ reply' = None
    /\ UNCHANGED features

----------------------------------------------------------------------------
(* json_to_query_result *)

\* elements of a response array: two that parse and two that do not
GoodElements == {"row1", "row2"}
BadElements == {"junk1", "junk2"}
Elements == GoodElements \cup BadElements

\* a serde_json::Value: an Array of elements, or any other variant
JsonArray(items) == [type |-> "Array", items |-> items]
JsonValues ==
    {JsonArray(items) : items \in SeqsUpTo(Elements, MaxArray)}
        \cup {[type |-> t, items |-> <<>>] : t \in {"Null", "Object"}}

\* parse_query_result(result, idx) of the crate root
parse_query_result(result, idx) ==
    IF result \in GoodElements
    THEN Ok(IF result = "row1" THEN "r1" ELSE "r2")
    ELSE Err([idx |-> idx, raw |-> result])

\* anyhow::anyhow!("{e}"): a new error holding e's Display text
anyhow_display(e) == [kind |-> "Message", text |-> <<"parse", e.idx, e.raw>>]

\* the for loop over results.into_iter().enumerate(): `?` leaves at the first
\* element that does not parse.  parsed logs the parse_query_result calls.
RECURSIVE decode_loop(_, _, _, _)
decode_loop(results, idx, query_results, parsed) ==
    IF idx >= Len(results)
    THEN [ret |-> Ok(query_results), parsed |-> parsed]
    ELSE LET result == results[idx + 1]
             one == parse_query_result(result, idx)
             log == Append(parsed, [raw |-> result, idx |-> idx])
         IN  IF one.tag = "Err"
             THEN [ret |-> Err(anyhow_display(one.val)), parsed |-> log]
             ELSE decode_loop(results, idx + 1,
                              Append(query_results, one.val), log)

\* a faulty variant: decodes whatever arrived, without comparing the lengths
json_to_query_result_nocount(response_json, stmts_count) ==
    IF response_json.type = "Array"
    THEN decode_loop(response_json.items, 0, <<>>, <<>>)
    ELSE [ret |-> Err([kind |-> "Error", value |-> response_json.type]),
          parsed |-> <<>>]

\* a faulty variant: skips an element that does not parse and goes on
RECURSIVE decode_loop_skip(_, _, _, _)
decode_loop_skip(results, idx, query_results, parsed) ==
    IF idx >= Len(results)
    THEN [ret |-> Ok(query_results), parsed |-> parsed]
    ELSE LET result == results[idx + 1]
             one == parse_query_result(result, idx)
             log == Append(parsed, [raw |-> result, idx |-> idx])
         IN  decode_loop_skip(results, idx + 1,
                 IF one.tag = "Err" THEN query_results
                 ELSE Append(query_results, one.val), log)

json_to_query_result_skip(response_json, stmts_count) ==
    IF response_json.type = "Array"
    THEN IF Len(response_json.items) # stmts_count
         THEN [ret |-> Err([kind |-> "CountMismatch", expected |-> stmts_count]),
               parsed |-> <<>>]
         ELSE decode_loop_skip(response_json.items, 0, <<>>, <<>>)
    ELSE [ret |-> Err([kind |-> "Error", value |-> response_json.type]),
          parsed |-> <<>>]

json_to_query_result(response_json, stmts_count) ==
    IF response_json.type = "Array"
    THEN IF Len(response_json.items) # stmts_count
         THEN [ret |-> Err([kind |-> "CountMismatch", expected |-> stmts_count]),
               parsed |-> <<>>]
         ELSE decode_loop(response_json.items, 0, <<>>, <<>>)
    ELSE [ret |-> Err([kind |-> "Error", value |-> response_json.type]),
          parsed |-> <<>>]

JsonToQueryResult ==
    /\ pc # "await"
    /\ \E response_json \in JsonValues, stmts_count \in 0..MaxCount :
        LET out == json_to_query_result(response_json, stmts_count)
        IN  /\ op' = "json_to_query_result"
            /\ arg' = [response_json |-> response_json,
                       stmts_count |-> stmts_count]
            /\ calls' = out.parsed
            /\ ret' = out.ret
    /\ pc' = "done"
    /\ reply' = None
    /\ UNCHANGED features

----------------------------------------------------------------------------
(* GenericClient and its constructors *)

\* the backend features of Cargo; a build with none of them has an empty
\* GenericClient and does not compile (`match self` in batch has no arm)
Backends == {"local", "reqwest", "workers", "spin"}
FeatureSets == (SUBSET Backends) \ {{}}

\* backend names a caller can ask for; "Local" and "mysql" name no backend
Kinds == Backends \cup {"Local", "mysql"}

\* endpoint locators, as sequences of characters
Https == <<"h", "t", "t", "p", "s", ":", "/", "/", "h">>
Http == <<"h", "t", "t", "p", ":", "/", "/", "h">>
File == <<"f", "i", "l", "e", ":", "/", "/", "/", "x">>
Ws == <<"w", "s", ":", "/", "/", "h">>
Htt == <<"h", "t", "t">>
Urls == {Https, Http, File, Ws, Htt}

\* str::starts_with
starts_with(s, prefix) ==
    /\ Len(s) >= Len(prefix)
    /\ SubSeq(s, 1, Len(prefix)) = prefix

\* an environment variable: set to a value, or not set
UnsetUrl == [set |-> FALSE, val |-> <<>>]
UnsetBackend == [set |-> FALSE, val |-> ""]
Set(v) == [set |-> TRUE, val |-> v]

CtorError(kind, detail) == Err([kind |-> kind, detail |-> detail])

\* a faulty variant: workers is tried before reqwest
infer_backend_workersfirst(url, feats) ==
    IF starts_with(url, <<"h", "t", "t", "p">>)
    THEN IF "workers" \in feats THEN "workers"
         ELSE IF "reqwest" \in feats THEN "reqwest"
         ELSE IF "spin" \in feats THEN "spin"
         ELSE "local"
    ELSE "local"

\* the closure of unwrap_or_else in new_client
infer_backend(url, feats) ==
    IF starts_with(url, <<"h", "t", "t", "p">>)
    THEN IF "reqwest" \in feats THEN "reqwest"
         ELSE IF "workers" \in feats THEN "workers"
         ELSE IF "spin" \in feats THEN "spin"
         ELSE "local"
    ELSE "local"

\* a faulty variant: the message of the fallback arm does not say which backend
new_client_with_config_anon(config, feats, built) ==
    LET backend == config.backend
    IN  CASE backend = "local" /\ "local" \in feats ->
                [ctor |-> "local::Client::new",
                 ret |-> IF built THEN Ok("Local")
                         ELSE CtorError("Backend", "local::Client::new")]
          [] backend = "reqwest" /\ "reqwest" \in feats ->
                [ctor |-> "reqwest::Client::from_url",
                 ret |-> IF built THEN Ok("Reqwest")
                         ELSE CtorError("Backend", "reqwest::Client::from_url")]
          [] backend = "workers" /\ "workers" \in feats ->
                [ctor |-> "none",
                 ret |-> CtorError("ContextRequired",
                            "libsql_client::workers::Client::connect_from_ctx()")]
          [] backend = "spin" /\ "spin" \in feats ->
                [ctor |-> "none",
                 ret |-> CtorError("ContextRequired",
                            "libsql_client::spin::Client::connect_from_url()")]
          [] OTHER ->
                [ctor |-> "none", ret |-> CtorError("UnknownBackend", "")]

\* a faulty variant: the workers arm builds a client instead of bailing out
new_client_with_config_workers(config, feats, built) ==
    LET backend == config.backend
    IN  CASE backend = "local" /\ "local" \in feats ->
                [ctor |-> "local::Client::new",
                 ret |-> IF built THEN Ok("Local")
                         ELSE CtorError("Backend", "local::Client::new")]
          [] backend = "reqwest" /\ "reqwest" \in feats ->
                [ctor |-> "reqwest::Client::from_url",
                 ret |-> IF built THEN Ok("Reqwest")
                         ELSE CtorError("Backend", "reqwest::Client::from_url")]
          [] backend = "workers" /\ "workers" \in feats ->
                [ctor |-> "workers::Client::new",
                 ret |-> IF built THEN Ok("Workers")
                         ELSE CtorError("Backend", "workers::Client::new")]
          [] backend = "spin" /\ "spin" \in feats ->
                [ctor |-> "none",
                 ret |-> CtorError("ContextRequired",
                            "libsql_client::spin::Client::connect_from_url()")]
          [] OTHER ->
                [ctor |-> "none", ret |-> CtorError("UnknownBackend", backend)]

\* the match on backend.as_str(): an arm exists only when its feature is
\* compiled in, so the name of a backend left out reaches the `_` arm.
\* built is whether the backend's own constructor (and Url::parse) succeeds.
new_client_with_config(config, feats, built) ==
    LET backend == config.backend
    IN  CASE backend = "local" /\ "local" \in feats ->
                [ctor |-> "local::Client::new",
                 ret |-> IF built THEN Ok("Local")
                         ELSE CtorError("Backend", "local::Client::new")]
          [] backend = "reqwest" /\ "reqwest" \in feats ->
                [ctor |-> "reqwest::Client::from_url",
                 ret |-> IF built THEN Ok("Reqwest")
                         ELSE CtorError("Backend", "reqwest::Client::from_url")]
          [] backend = "workers" /\ "workers" \in feats ->
                [ctor |-> "none",
                 ret |-> CtorError("ContextRequired",
                            "libsql_client::workers::Client::connect_from_ctx()")]
          [] backend = "spin" /\ "spin" \in feats ->
                [ctor |-> "none",
                 ret |-> CtorError("ContextRequired",
                            "libsql_client::spin::Client::connect_from_url()")]
          [] OTHER ->
                [ctor |-> "none", ret |-> CtorError("UnknownBackend", backend)]

\* new_client: env is the pair of environment variables.  config is the
\* ClientConfig handed to new_client_with_config, if it got that far.
new_client(env, feats, built) ==
    IF ~env.url.set
    THEN [config |-> <<>>, ctor |-> "none",
          ret |-> CtorError("Config", "LIBSQL_CLIENT_URL")]
    ELSE LET url == env.url.val
             backend == IF env.backend.set THEN env.backend.val
                        ELSE infer_backend(url, feats)
             config == [url |-> url, backend |-> backend]
             out == new_client_with_config(config, feats, built)
         IN  [config |-> <<config>>, ctor |-> out.ctor, ret |-> out.ret]

\* what the backend's constructor answered, when one was called
CtorReply(ctor, built) ==
    IF ctor = "none" THEN None
    ELSE IF built THEN Ok(ctor) ELSE Err(ctor)

NewClientWithConfig ==
    /\ pc # "await"
    /\ \E url \in Urls, backend \in Kinds, built \in BOOLEAN :
        LET config == [url |-> url, backend |-> backend]
            out == new_client_with_config(config, features, built)
        IN  /\ op' = "new_client_with_config"
            /\ arg' = config
            /\ calls' = <<>>
            /\ reply' = CtorReply(out.ctor, built)
            /\ ret' = out.ret
    /\ pc' = "done"
    /\ UNCHANGED features

NewClient ==
    /\ pc # "await"
    /\ \E url \in {Set(u) : u \in Urls} \cup {UnsetUrl},
          backend \in {Set(k) : k \in Kinds} \cup {UnsetBackend},
          built \in BOOLEAN :
        LET env == [url |-> url, backend |-> backend]
            out == new_client(env, features, built)
        IN  /\ op' = "new_client"
            /\ arg' = env
            /\ calls' = out.config
            /\ reply' = CtorReply(out.ctor, built)
            /\ ret' = out.ret
    /\ pc' = "done"
    /\ UNCHANGED features

----------------------------------------------------------------------------
(* The specifications: one per part of the file.  The trait's methods and  *)
(* the codec do not read the cargo features, so only SpecBuild ranges over *)
(* the builds.                                                             *)

Idle ==
    /\ pc = "idle"
    /\ op = "none"
    /\ arg = <<>>
    /\ calls = <<>>
    /\ reply = None
    /\ ret = None

\* the provided methods of DatabaseClient over any implementation of batch
InitClient == features = Backends /\ Idle
NextClient ==
    \/ Execute
    \/ Transaction
    \/ BatchCompletes
SpecClient == InitClient /\ [][NextClient]_vars

\* the codec
InitCodec == features = Backends /\ Idle
NextCodec ==
    \/ StatementsToString
    \/ JsonToQueryResult
SpecCodec == InitCodec /\ [][NextCodec]_vars

\* the constructors, in every build that compiles
InitBuild == features \in FeatureSets /\ Idle
NextBuild ==
    \/ NewClientWithConfig
    \/ NewClient
SpecBuild == InitBuild /\ [][NextBuild]_vars

----------------------------------------------------------------------------
(* Properties of the provided methods, checked under SpecClient *)

Returned == pc = "done"

\* C1: transaction(stmts) calls batch with BEGIN, then the caller's
\* statements in order, then END, and when batch succeeds with one result
\* per statement submitted it returns the results of the caller's
\* statements in order, without those of BEGIN and END.
C1_TransactionFraming ==
    op = "transaction" =>
        /\ Len(calls) = 1
        /\ LET sent == calls[1]
           IN  /\ Len(sent) = Len(arg) + 2
               /\ sent[1] = "BEGIN"
               /\ sent[Len(sent)] = "END"
               /\ \A i \in 1..Len(arg) : sent[i + 1] = arg[i]
        /\ (Returned /\ reply.tag = "Ok" /\ Len(reply.val) = Len(arg) + 2) =>
               /\ ret.tag = "Ok"
               /\ Len(ret.val) = Len(arg)
               /\ \A i \in 1..Len(arg) : ret.val[i] = reply.val[i + 1]

\* a transaction of two statements whose four results came back
C1_Witness ==
    /\ op = "transaction" /\ Returned
    /\ arg = <<"INSERT", "SELECT 1">>
    /\ calls = << <<"BEGIN", "INSERT", "SELECT 1", "END">> >>
    /\ reply = Ok(<<"r1", "r2", "r1", "r1">>)
    /\ ret = Ok(<<"r2", "r1">>)

\* C2: execute(s) calls batch with the one-element sequence [s] and, when
\* batch succeeds, returns the result batch returned at index 0.
C2_ExecuteIsBatchOfOne ==
    op = "execute" =>
        /\ calls = << <<arg>> >>
        /\ (Returned /\ reply.tag = "Ok" /\ Len(reply.val) >= 1) =>
               ret = Ok(reply.val[1])

\* execute returned the first of two different results
C2_Witness ==
    /\ op = "execute" /\ Returned
    /\ arg = "SELECT 1"
    /\ reply = Ok(<<"r2", "r1">>)
    /\ ret = Ok("r2")

\* C3: execute and transaction call batch exactly once; they return a
\* failure exactly when batch failed, and then it is batch's failure, with
\* nothing else sent to the backend.  A successful batch gives a success,
\* except that execute panics on a success without results: a panic
\* unwinds, it is not a returned failure.
C3_FailExactlyWhenBatchFails ==
    op \in {"execute", "transaction"} =>
        /\ Len(calls) = 1
        /\ calls[1] = IF op = "execute" THEN <<arg>>
                      ELSE <<"BEGIN">> \o arg \o <<"END">>
        /\ Returned =>
               /\ (ret.tag = "Err") <=> (reply.tag = "Err")
               /\ reply.tag = "Err" => ret = reply
               /\ reply.tag = "Ok" =>
                      \/ ret.tag = "Ok"
                      \/ /\ op = "execute"
                         /\ Len(reply.val) = 0
                         /\ ret.tag = "Panic"

\* a transaction whose batch failed
C3_Witness ==
    /\ op = "transaction" /\ Returned
    /\ arg = <<"INSERT">>
    /\ reply = Err("sql error")
    /\ ret = Err("sql error")
    /\ Len(calls) = 1

\* the longer of 0 and n
Max0(n) == IF n > 0 THEN n ELSE 0

\* C10: for a successful batch result of any length k, transaction returns
\* success with the results at positions 2..k-1 (max(k-2, 0) of them) and
\* does not compare k with the number of statements; execute panics when
\* batch succeeds with no result.
C10_TransactionUnchecked ==
    (Returned /\ reply.tag = "Ok") =>
        /\ op = "transaction" =>
               /\ ret.tag = "Ok"
               /\ Len(ret.val) = Max0(Len(reply.val) - 2)
               /\ \A i \in 1..Len(ret.val) : ret.val[i] = reply.val[i + 1]
        /\ (op = "execute" /\ Len(reply.val) = 0) => ret.tag = "Panic"

\* two statements, one result from the backend, an empty success
C10_Witness ==
    /\ op = "transaction" /\ Returned
    /\ Len(arg) = 2
    /\ reply = Ok(<<"r1">>)
    /\ ret = Ok(<<>>)

----------------------------------------------------------------------------
(* Properties of the codec, checked under SpecCodec *)

Decoded == op = "json_to_query_result"

\* C4: json_to_query_result fails for every value that is not an array and
\* for every array whose length is not stmts_count; a successful decode
\* has exactly stmts_count results.
C4_DecodeChecksShapeAndCount ==
    Decoded =>
        /\ arg.response_json.type # "Array" =>
               ret.tag = "Err" /\ ret.val.kind = "Error"
        /\ (arg.response_json.type = "Array"
              /\ Len(arg.response_json.items) # arg.stmts_count) =>
               ret.tag = "Err" /\ ret.val.kind = "CountMismatch"
        /\ ret.tag = "Ok" => Len(ret.val) = arg.stmts_count

\* an array of three well-formed elements where two were expected
C4_Witness ==
    /\ Decoded
    /\ arg.response_json = JsonArray(<<"row1", "row2", "row1">>)
    /\ arg.stmts_count = 2
    /\ ret.tag = "Err" /\ ret.val.kind = "CountMismatch"

\* the positions of the elements that do not parse
Failing(items) == {i \in 1..Len(items) : items[i] \notin GoodElements}
Least(S) == CHOOSE i \in S : \A j \in S : i <= j

\* C5: for an array of the expected length the elements are parsed with
\* their index, in increasing order; the results keep the order; at the
\* first element that does not parse the decode stops, returns that
\* element's error and no results, and parses nothing after it.
C5_DecodeInOrderFailFast ==
    (Decoded /\ arg.response_json.type = "Array"
       /\ Len(arg.response_json.items) = arg.stmts_count) =>
        LET items == arg.response_json.items
            bad == Failing(items)
            last == IF bad = {} THEN Len(items) ELSE Least(bad)
        IN  /\ Len(calls) = last
            /\ \A i \in 1..last : calls[i] = [raw |-> items[i], idx |-> i - 1]
            /\ IF bad = {}
               THEN /\ ret.tag = "Ok"
                    /\ Len(ret.val) = Len(items)
                    /\ \A i \in 1..Len(items) :
                           Ok(ret.val[i]) = parse_query_result(items[i], i - 1)
               ELSE /\ ret.tag = "Err"
                    /\ ret.val = anyhow_display(
                           parse_query_result(items[last], last - 1).val)

\* the second and third of three elements do not parse
C5_Witness ==
    /\ Decoded
    /\ arg.response_json = JsonArray(<<"row2", "junk1", "junk2">>)
    /\ arg.stmts_count = 3
    /\ calls = <<[raw |-> "row2", idx |-> 0], [raw |-> "junk1", idx |-> 1]>>
    /\ ret = Err([kind |-> "Message", text |-> <<"parse", 1, "junk1">>])

\* the encoded statements with a comma between neighbours
RECURSIVE Joined(_)
Joined(stmts) ==
    IF Len(stmts) = 0 THEN <<>>
    ELSE IF Len(stmts) = 1 THEN Display(stmts[1])
    ELSE Display(stmts[1]) \o <<",">> \o Joined(Tail(stmts))

\* C6: statements_to_string returns {"statements": [e1,...,en]} with the
\* encoded statements in order, commas between them and none after the
\* last, and the count n; for no statements the array is empty, the count
\* is 0 and the opening bracket is intact.
C6_EncodeShape ==
    op = "statements_to_string" =>
        /\ ret.val.body = Opening \o Joined(arg) \o Closing
        /\ ret.val.stmts_count = Len(arg)
        /\ arg = <<>> =>
               /\ ret.val.body = Opening \o Closing
               /\ ret.val.stmts_count = 0

\* two statements, the first of which ends in a comma of its own
C6_Witness ==
    /\ op = "statements_to_string"
    /\ arg = <<"INSERT", "SELECT 1">>
    /\ ret.val.body = Opening \o <<"I", ",", ",", "S", ",", "1">> \o Closing
    /\ ret.val.stmts_count = 2

----------------------------------------------------------------------------
(* Properties of the constructors, checked under SpecBuild *)

\* the ClientConfig new_client_with_config worked on, if it was reached
Configured ==
    \/ op = "new_client_with_config"
    \/ op = "new_client" /\ Len(calls) = 1
Config == IF op = "new_client" THEN calls[1] ELSE arg

\* new_client was called with a locator and without a backend name
Inferring ==
    /\ op = "new_client"
    /\ arg.url.set
    /\ ~arg.backend.set

Network(url) == starts_with(url, <<"h", "t", "t", "p">>)
Priority == <<"reqwest", "workers", "spin">>
Compiled == {i \in 1..Len(Priority) : Priority[i] \in features}
Variant(kind) ==
    CASE kind = "local" -> "Local"
      [] kind = "reqwest" -> "Reqwest"
      [] kind = "workers" -> "Workers"
      [] kind = "spin" -> "Spin"

\* C7 as claimed: without a backend name, a network locator gives a client
\* of the first of reqwest, workers, spin that is compiled in, and any
\* other locator a client of the local backend, in every build (stated for
\* the claim's own two locators, https://... and file:///..., for builds
\* with a network backend where the locator is a network one, and for the
\* runs in which no backend constructor failed).
C7_ResolvedClientAsClaimed ==
    (Inferring /\ reply.tag # "Err"
       /\ arg.url.val \in {Https, File}
       /\ (Network(arg.url.val) => Compiled # {})) =>
        ret = Ok(Variant(IF Network(arg.url.val)
                         THEN Priority[Least(Compiled)] ELSE "local"))

\* C7 as amended: without a backend name, new_client infers the kind: for
\* a locator starting with "http" the first of reqwest, workers, spin that
\* is compiled in, or local when none is, and local for any other
\* locator.  A client is returned exactly when that kind is local or
\* reqwest, is compiled in and the backend's constructor succeeds, and it
\* is of that kind; workers or spin gives the context-required error, and
\* local that is not compiled in the unknown-backend error.
C7_InferredKind ==
    Inferring =>
        LET kind == IF Network(arg.url.val) /\ Compiled # {}
                    THEN Priority[Least(Compiled)] ELSE "local"
        IN  /\ calls = <<[url |-> arg.url.val, backend |-> kind]>>
            /\ (ret.tag = "Ok") <=>
                   /\ kind \in {"local", "reqwest"}
                   /\ kind \in features
                   /\ reply.tag = "Ok"
            /\ ret.tag = "Ok" => ret.val = Variant(kind)
            /\ kind \in {"workers", "spin"} =>
                   ret.tag = "Err" /\ ret.val.kind = "ContextRequired"
            /\ kind \notin features =>
                   ret = CtorError("UnknownBackend", kind)

\* a build without reqwest: an https locator is inferred to be workers
C7_Witness ==
    /\ Inferring
    /\ features = {"local", "workers", "spin"}
    /\ arg.url.val = Https
    /\ calls = <<[url |-> Https, backend |-> "workers"]>>
    /\ ret.tag = "Err" /\ ret.val.kind = "ContextRequired"

\* C8: a backend name, given or inferred, that names no backend or one
\* that is not compiled in makes construction fail with the
\* unknown-backend error, which names it; no client is made.
C8_UnsupportedBackend ==
    (Configured
       /\ (Config.backend \notin Backends \/ Config.backend \notin features)) =>
        /\ ret = CtorError("UnknownBackend", Config.backend)
        /\ reply = None

\* spin asked for by name in a build without it
C8_Witness ==
    /\ op = "new_client_with_config"
    /\ arg.backend = "spin"
    /\ "spin" \notin features
    /\ ret = CtorError("UnknownBackend", "spin")

\* the constructor each context-bound backend directs the caller to
OwnConstructor(kind) ==
    IF kind = "workers"
    THEN "libsql_client::workers::Client::connect_from_ctx()"
    ELSE "libsql_client::spin::Client::connect_from_url()"

\* C9: workers or spin, compiled in and selected through new_client or
\* new_client_with_config, by name or by inference, always fails with the
\* context-required error naming the backend's own constructor; neither
\* constructor ever returns a Workers or Spin client.
C9_ContextRequired ==
    /\ (Configured /\ Config.backend \in {"workers", "spin"}
          /\ Config.backend \in features) =>
           /\ ret = CtorError("ContextRequired", OwnConstructor(Config.backend))
           /\ reply = None
    /\ (op \in {"new_client", "new_client_with_config"} /\ ret.tag = "Ok") =>
           ret.val \in {"Local", "Reqwest"}

\* spin inferred from an http locator in a build with spin and local only
C9_Witness ==
    /\ Inferring
    /\ features = {"local", "spin"}
    /\ arg.url.val = Http
    /\ Config.backend = "spin"
    /\ ret = CtorError("ContextRequired",
                       "libsql_client::spin::Client::connect_from_url()")

====
